---- MODULE Spec2Model ----
(***************************************************************************)
(* Model of src/src/debug/SourceMap.ts (namespace SourceMap, the latest    *)
(* variant of the file, lines 218-445): the VLQ decoder, the mapping       *)
(* builder, the two module-level caches and the operations                 *)
(* verifyBreakpoint, getTSMap and clear.                                   *)
(*                                                                         *)
(* Conventions.                                                            *)
(*   - A JavaScript string is a sequence of one-character strings.         *)
(*   - A value that may be `undefined` is a sequence of length 0 or 1:     *)
(*     None is undefined, Some(v) is v.                                    *)
(*   - A path is a sequence of segments; an absolute path lists the        *)
(*     segments below the root.                                            *)
(***************************************************************************)
EXTENDS Integers, Sequences, FiniteSets, TLC

None == <<>>
Some(v) == <<v>>

(***************************************************************************)
(* VLQ decoder                                                             *)
(***************************************************************************)

\* The 65 characters of the alphabet string, in order ('=' is the 65th).
Alphabet ==
  << "A","B","C","D","E","F","G","H","I","J","K","L","M",
     "N","O","P","Q","R","S","T","U","V","W","X","Y","Z",
     "a","b","c","d","e","f","g","h","i","j","k","l","m",
     "n","o","p","q","r","s","t","u","v","w","x","y","z",
     "0","1","2","3","4","5","6","7","8","9","+","/","=" >>

\* charToInteger[char]: the index of char in the alphabet, None when absent.
charToInteger(char) ==
  IF \E i \in 1..Len(Alphabet) : Alphabet[i] = char
  THEN Some((CHOOSE i \in 1..Len(Alphabet) : Alphabet[i] = char) - 1)
  ELSE None

RECURSIVE Pow2(_)
Pow2(n) == IF n = 0 THEN 1 ELSE 2 * Pow2(n - 1)

\* The continuation flag and the payload mask of one 6-bit character value,
\* and the growth of shift per continued character.
ContinuationBit == 32
PayloadMask == 31
ShiftStep == 5

\* The bitwise operators <<, & and >>> work on 32-bit words. Numbers wider
\* than 31 bits are kept as [hi, lo] with value = hi * 2^HalfBits + lo and
\* 0 <= lo < 2^HalfBits.
WordBits == 32
HalfBits == WordBits \div 2
Half == Pow2(HalfBits)

\* integer << shift: the shift count is taken modulo 32 and the result is
\* wrapped to a signed 32-bit integer (ToInt32).
ShiftLeft(integer, shift) ==
  LET s    == shift % WordBits
      raw  == IF s < HalfBits
              THEN [hi |-> (integer * Pow2(s)) \div Half,
                    lo |-> (integer * Pow2(s)) % Half]
              ELSE [hi |-> integer * Pow2(s - HalfBits), lo |-> 0]
      hi16 == raw.hi % Half
  IN  [hi |-> IF hi16 >= Half \div 2 THEN hi16 - Half ELSE hi16, lo |-> raw.lo]

\* value += x on JavaScript numbers (exact, no wrapping).
AddWide(a, b) ==
  LET lo == a.lo + b.lo
  IN  [hi |-> a.hi + b.hi + (lo \div Half), lo |-> lo % Half]

\* value & 1
LowBit(a) == a.lo % 2

\* value >> 1: ToInt32 of the value, shifted right by one with the sign kept.
ShiftRightSigned1(a) ==
  LET hi16 == a.hi % Half
      low  == (hi16 \div 2) * Half + (hi16 % 2) * (Half \div 2) + (a.lo \div 2)
  IN  IF hi16 >= Half \div 2 THEN (low - 2147483647) - 1 ELSE low

\* value >>> 1: ToUint32 of the value, shifted right by one (fits 31 bits).
ShiftRightUnsigned1(a) ==
  LET hi16 == a.hi % Half
  IN  (hi16 \div 2) * Half + (hi16 % 2) * (Half \div 2) + (a.lo \div 2)

\* -0x80000000
MinInt32 == (0 - 2147483647) - 1

WideZero == [hi |-> 0, lo |-> 0]

\* One round of decode's loop on the character char; st holds shift, value
\* and result, and threw once the Error was thrown.
decodeChar(st, char) ==
  LET integer == charToInteger(char) IN
  IF integer = None THEN [st EXCEPT !.threw = TRUE, !.result = <<>>]
  ELSE
    LET hasContinuationBit == (integer[1] \div ContinuationBit) % 2 = 1
        payload == integer[1] % (PayloadMask + 1)
        value2  == AddWide(st.value, ShiftLeft(payload, st.shift))
    IN  IF hasContinuationBit
        THEN [st EXCEPT !.shift = st.shift + ShiftStep, !.value = value2]
        ELSE
          LET shouldNegate == LowBit(value2) = 1
              magnitude    == ShiftRightUnsigned1(value2)
              pushed       == IF shouldNegate
                              THEN (IF magnitude = 0 THEN MinInt32 ELSE 0 - magnitude)
                              ELSE magnitude
          IN  [st EXCEPT !.shift = 0, !.value = WideZero,
                         !.result = Append(st.result, pushed)]

\* decode's loop from position i on. (Each round's state is bound to a
\* value, next, before the loop goes on.)
RECURSIVE decodeFrom(_, _, _)
decodeFrom(string, i, st) ==
  IF i > Len(string) \/ st.threw THEN st
  ELSE CHOOSE end \in {decodeFrom(string, i + 1, next) :
                         next \in {decodeChar(st, string[i])}} : TRUE

\* decode(string): [threw, result]
decode(string) ==
  LET end == decodeFrom(string, 1,
                        [shift |-> 0, value |-> WideZero, result |-> <<>>,
                         threw |-> FALSE])
  IN  [threw |-> end.threw, result |-> end.result]

(***************************************************************************)
(* Mapping builder                                                         *)
(***************************************************************************)

\* String.prototype.split(separator) for a one-character separator: the
\* pieces between the separators, an empty string giving one empty piece.
RECURSIVE splitFrom(_, _, _, _)
splitFrom(string, separator, i, piece) ==
  IF i > Len(string) THEN <<piece>>
  ELSE IF string[i] = separator
       THEN <<piece>> \o splitFrom(string, separator, i + 1, <<>>)
       ELSE splitFrom(string, separator, i + 1, Append(piece, string[i]))

split(string, separator) == splitFrom(string, separator, 1, <<>>)

\* offsets[k] || 0 for the 0-based position k of a decoded segment.
offsetOrZero(offsets, k) == IF k + 1 <= Len(offsets) THEN offsets[k + 1] ELSE 0

\* TreeMap.insert_or_assign(key, value): the insert that overwrites the value
\* of an already present key.
TreeMapInsertOrAssign(lines, key, value) ==
  [k \in DOMAIN lines \cup {key} |-> IF k = key THEN value ELSE lines[k]]

\* TreeMap.insert(make_pair(key, value)) of the tstl library: a unique-key
\* ordered map whose insert leaves an already present key as it is.
TreeMapInsert(lines, key, value) ==
  IF key \in DOMAIN lines THEN lines
  ELSE [k \in DOMAIN lines \cup {key} |-> IF k = key THEN value ELSE lines[k]]

\* The start values of build's running totals.
FirstLine == 1
FirstSourceIndex == 0
FirstSourceLine == 1
FirstSourceColumn == 1

\* A comparison of the source line alone, without the column as tie-break.
replacesLineMappingByLine(sourceMap, line, sourceLine, sourceColumn) ==
  \/ line \notin DOMAIN sourceMap
  \/ sourceLine < sourceMap[line].sourceLine

\* Whether build stores the new position for the output line: no entry yet,
\* or a strictly smaller (sourceLine, sourceColumn).
replacesLineMapping(sourceMap, line, sourceLine, sourceColumn) ==
  \/ line \notin DOMAIN sourceMap
  \/ sourceLine < sourceMap[line].sourceLine
  \/ /\ sourceLine = sourceMap[line].sourceLine
     /\ sourceColumn < sourceMap[line].sourceColumn

\* One colMapping of a row: the state st of build after the segment.
buildOffsets(st, offsets) ==
  IF offsets.threw THEN [st EXCEPT !.threw = TRUE]
  ELSE
    LET sourceIndex  == st.sourceIndex + offsetOrZero(offsets.result, 1)
        sourceLine   == st.sourceLine + offsetOrZero(offsets.result, 2)
        sourceColumn == st.sourceColumn + offsetOrZero(offsets.result, 3)
        entry == [sourceIndex |-> sourceIndex, sourceLine |-> sourceLine,
                  sourceColumn |-> sourceColumn]
    IN  [st EXCEPT
           !.sourceIndex = sourceIndex,
           !.sourceLine = sourceLine,
           !.sourceColumn = sourceColumn,
           !.sourceMap =
              IF replacesLineMapping(st.sourceMap, st.line, sourceLine, sourceColumn)
              THEN [l \in DOMAIN st.sourceMap \cup {st.line} |->
                      IF l = st.line THEN entry ELSE st.sourceMap[l]]
              ELSE st.sourceMap,
           !.tsFileLines = TreeMapInsert(st.tsFileLines, sourceLine, st.line)]

buildSegment(st, colMapping) ==
  CHOOSE after \in {buildOffsets(st, offsets) : offsets \in {decode(colMapping)}} : TRUE

\* The inner loop over the colMappings of one row, from the j-th on.
RECURSIVE buildColumns(_, _, _)
buildColumns(st, cols, j) ==
  IF j > Len(cols) \/ st.threw THEN st
  ELSE CHOOSE end \in {buildColumns(next, cols, j + 1) :
                         next \in {buildSegment(st, cols[j])}} : TRUE

\* A row that starts its running totals afresh instead of carrying them on.
buildRowFromStart(st, rowMapping) ==
  IF Len(rowMapping) > 0
  THEN CHOOSE after \in
         {IF done.threw THEN done ELSE [done EXCEPT !.line = done.line + 1] :
            done \in {buildColumns([st EXCEPT !.sourceIndex = FirstSourceIndex,
                                              !.sourceLine = FirstSourceLine,
                                              !.sourceColumn = FirstSourceColumn],
                                   split(rowMapping, ","), 1)}} : TRUE
  ELSE [st EXCEPT !.line = st.line + 1]

\* One rowMapping: its segments when it is not empty, then line++.
buildRow(st, rowMapping) ==
  IF Len(rowMapping) > 0
  THEN CHOOSE after \in
         {IF done.threw THEN done ELSE [done EXCEPT !.line = done.line + 1] :
            done \in {buildColumns(st, split(rowMapping, ","), 1)}} : TRUE
  ELSE [st EXCEPT !.line = st.line + 1]

\* The outer loop over the rowMappings, from the i-th on.
RECURSIVE buildRows(_, _, _)
buildRows(st, rows, i) ==
  IF i > Len(rows) \/ st.threw THEN st
  ELSE CHOOSE end \in {buildRows(next, rows, i + 1) :
                         next \in {buildRow(st, rows[i])}} : TRUE

\* build(mappings): [threw, sourceMap, tsFileLines]; sourceMap is the sparse
\* row -> Line Mapping part, tsFileLines the Original-Line Index.
build(mappings) ==
  LET st0 == [line |-> FirstLine, sourceIndex |-> FirstSourceIndex,
              sourceLine |-> FirstSourceLine, sourceColumn |-> FirstSourceColumn,
              sourceMap |-> <<>>, tsFileLines |-> <<>>, threw |-> FALSE]
  IN  CHOOSE result \in
        {[threw |-> st.threw, sourceMap |-> st.sourceMap, tsFileLines |-> st.tsFileLines] :
           st \in {buildRows(st0, split(mappings, ";"), 1)}} : TRUE

(***************************************************************************)
(* Paths and the file system                                               *)
(***************************************************************************)

\* The string form of one-character sequences used for mapping strings.
Scenario == << ";", "A","A","A","A", ",", "g","B","A","A","k","B", ";",
               "A","A","A","V", ";", "A","A","E","J" >>

\* luaPath + ".map"
mapFilePathOf(luaPath) ==
  [i \in 1..Len(luaPath) |->
     IF i = Len(luaPath) THEN luaPath[i] \o ".map" ELSE luaPath[i]]

\* path.dirname of an absolute path with at least one segment below the root.
dirname(path) == SubSeq(path, 1, Len(path) - 1)

\* path.resolve of an absolute path: "." is dropped, ".." removes the
\* segment before it (and is dropped at the root).
RECURSIVE resolveFrom(_, _, _)
resolveFrom(path, i, done) ==
  IF i > Len(path) THEN done
  ELSE CHOOSE end \in
         {resolveFrom(path, i + 1, next) :
            next \in {IF path[i] = "." THEN done
                      ELSE IF path[i] = ".."
                      THEN (IF Len(done) = 0 THEN done
                            ELSE SubSeq(done, 1, Len(done) - 1))
                      ELSE Append(done, path[i])}} : TRUE

resolve(path) == resolveFrom(path, 1, <<>>)

\* sources[sourceIndex]: undefined outside the list (also when the list is
\* empty or the index is negative).
sourceEntry(sources, sourceIndex) ==
  IF sourceIndex >= 0 /\ sourceIndex < Len(sources)
  THEN Some(sources[sourceIndex + 1]) ELSE None

\* getTSMap.toTSFileAbsPath: dirname(luaFilePath) + "/" + tsRelPath, resolved.
\* String concatenation turns an undefined entry into the text "undefined".
toTSFileAbsPath(luaFilePath, tsRelPath) ==
  resolve(dirname(luaFilePath)
          \o (IF tsRelPath = None THEN <<"undefined">> ELSE tsRelPath[1]))

(***************************************************************************)
(* buildMap                                                                *)
(***************************************************************************)

\* A file on disk: absent, or the parsed JSON with its optional fields.
NoFile == [exists |-> FALSE, mappings |-> None, sources |-> None]
MapFile(mappings, sources) == [exists |-> TRUE, mappings |-> mappings, sources |-> sources]

\* !mapData.mappings: the field is absent or the empty string.
mappingsFalsy(file) == file.mappings = None \/ Len(file.mappings[1]) = 0
\* !mapData.sources: the field is absent (an empty array is truthy).
sourcesFalsy(file) == file.sources = None

\* buildMap(mapFilePath) on the file found at that path. ok is the
\* truthiness of the returned value; readFileSync tells whether the file
\* was read; threw tells that decode's Error left the function.
buildMap(file) ==
  IF ~file.exists
  THEN [ok |-> FALSE, threw |-> FALSE, readFileSync |-> FALSE,
        sourceMap |-> None, tsFileLines |-> None]
  ELSE IF mappingsFalsy(file) \/ sourcesFalsy(file)
  THEN [ok |-> FALSE, threw |-> FALSE, readFileSync |-> TRUE,
        sourceMap |-> None, tsFileLines |-> None]
  ELSE
    CHOOSE returned \in
      {IF result.threw
       THEN [ok |-> FALSE, threw |-> TRUE, readFileSync |-> TRUE,
             sourceMap |-> None, tsFileLines |-> None]
       ELSE [ok |-> TRUE, threw |-> FALSE, readFileSync |-> TRUE,
             sourceMap |-> Some([built |-> TRUE, lines |-> result.sourceMap,
                                 sources |-> file.sources[1]]),
             tsFileLines |-> Some(result.tsFileLines)] :
         result \in {build(file.mappings[1])}} : TRUE

(***************************************************************************)
(* State                                                                   *)
(***************************************************************************)

VARIABLES
  cache,            \* cache: output path -> SourceMap | false, absent keys undefined
  tsVerifiedLines,  \* tsVerifiedLines: original path -> Original-Line Index
  fs,               \* the disk: map file path -> file
  versions,         \* the files the compiler may leave on disk in this session
  outputs,          \* the output files of this session
  last,             \* observation of the most recent call and of the state it met
  failedMissing,    \* output paths with a lookup that met a missing map file since clear
  readDone,         \* output paths whose map file was read since clear
  tipsShown,        \* map file paths a diagnostic was shown for since clear
  afterClear        \* what clear() emptied, while no lookup has run since; else None

vars == <<cache, tsVerifiedLines, fs, versions, outputs, last, failedMissing, readDone,
          tipsShown, afterClear>>

\* Largest line number a caller asks for.
MaxLine == 3

LuaA == <<"out", "a.lua">>
LuaB == <<"out", "b.lua">>
TsPaths  == {<<"src", "a.ts">>, <<"src", "b.ts">>}
\* tsFileName of a call: an original file, or a file that is no ts file.
FileNames == TsPaths \cup {LuaA}
Lines == 1..MaxLine

\* The `false` sentinel of the cache.
FalseSentinel == [built |-> FALSE, lines |-> <<>>, sources |-> <<>>]

cacheGet(luaPath) == IF luaPath \in DOMAIN cache THEN Some(cache[luaPath]) ELSE None
indexGet(tsFileName) ==
  IF tsFileName \in DOMAIN tsVerifiedLines THEN Some(tsVerifiedLines[tsFileName]) ELSE None

\* m with m[key] = value, the key added when absent.
Put(m, key, value) == [k \in DOMAIN m \cup {key} |-> IF k = key THEN value ELSE m[k]]

(***************************************************************************)
(* verifyBreakpoint                                                        *)
(***************************************************************************)

\* TreeMap.upper_bound(key), the first key greater than key: what
\* getTSFileLine would use if it skipped an exact match.
upper_bound(lines, key) ==
  LET greater == {k \in DOMAIN lines : k > key}
  IN  IF greater = {} THEN None
      ELSE Some(CHOOSE k \in greater : \A j \in greater : k <= j)

\* TreeMap.lower_bound(key): the first key not less than key, None for end().
lower_bound(lines, key) ==
  LET notLess == {k \in DOMAIN lines : k >= key}
  IN  IF notLess = {} THEN None
      ELSE Some(CHOOSE k \in notLess : \A j \in notLess : k <= j)

\* end().prev(): the element with the largest key.
lastKey(lines) == CHOOSE k \in DOMAIN lines : \A j \in DOMAIN lines : j <= k

\* verifyBreakpoint.getTSFileLine(_lines, inputLine)
getTSFileLine(lines, inputLine) ==
  IF Cardinality(DOMAIN lines) = 0
  THEN [tsLine |-> None, luaLine |-> None]
  ELSE
    LET it == lower_bound(lines, inputLine) IN
    IF it = None
    THEN [tsLine |-> Some(lastKey(lines)), luaLine |-> Some(lines[lastKey(lines)])]
    ELSE [tsLine |-> Some(it[1]), luaLine |-> Some(lines[it[1]])]

\* What one call did: the caches it leaves, what it returned (ret; None when
\* it threw), and its calls of fs.existsSync, fs.readFileSync and
\* DebugLogger.showTips.
Outcome(c, t, ret, threw, existsSync, readFileSync, showTips) ==
  [cache |-> c, tsVerifiedLines |-> t, ret |-> ret, threw |-> threw,
   existsSync |-> existsSync, readFileSync |-> readFileSync, showTips |-> showTips]

\* verifyBreakpoint without the early return for tsFileName == luaPath: a
\* file that is no ts file is looked up like an original file.
verifyBreakpointNoNameTest(tsFileName, line, luaPath) ==
  IF luaPath = None
  THEN Outcome(cache, tsVerifiedLines, Some([tsLine |-> None, luaLine |-> None]),
               FALSE, FALSE, FALSE, FALSE)
  ELSE IF tsFileName \in DOMAIN tsVerifiedLines
  THEN Outcome(cache, tsVerifiedLines,
               Some(getTSFileLine(tsVerifiedLines[tsFileName], line)),
               FALSE, FALSE, FALSE, FALSE)
  ELSE
    CHOOSE o \in
      {IF result.threw
       THEN Outcome(cache, tsVerifiedLines, None, TRUE, TRUE, result.readFileSync, FALSE)
       ELSE IF ~result.ok
       THEN Outcome(cache, tsVerifiedLines, Some([tsLine |-> None, luaLine |-> None]),
                    FALSE, TRUE, result.readFileSync, TRUE)
       ELSE Outcome(Put(cache, luaPath[1], result.sourceMap[1]),
                    Put(tsVerifiedLines, tsFileName, result.tsFileLines[1]),
                    Some(getTSFileLine(result.tsFileLines[1], line)),
                    FALSE, TRUE, result.readFileSync, FALSE) :
         result \in {buildMap(fs[mapFilePathOf(luaPath[1])])}} : TRUE

\* verifyBreakpoint(tsFileName, line, luaPath); luaPath is None for undefined.
verifyBreakpoint(tsFileName, line, luaPath) ==
  IF luaPath = None
  THEN Outcome(cache, tsVerifiedLines, Some([tsLine |-> None, luaLine |-> None]),
               FALSE, FALSE, FALSE, FALSE)
  ELSE IF tsFileName = luaPath[1]
  THEN Outcome(cache, tsVerifiedLines, Some([tsLine |-> None, luaLine |-> Some(line)]),
               FALSE, FALSE, FALSE, FALSE)
  ELSE IF tsFileName \in DOMAIN tsVerifiedLines
  THEN Outcome(cache, tsVerifiedLines,
               Some(getTSFileLine(tsVerifiedLines[tsFileName], line)),
               FALSE, FALSE, FALSE, FALSE)
  ELSE
    LET mapFilePath == mapFilePathOf(luaPath[1]) IN
    CHOOSE o \in
      {IF result.threw
       THEN Outcome(cache, tsVerifiedLines, None, TRUE, TRUE, result.readFileSync, FALSE)
       ELSE IF ~result.ok
       THEN Outcome(cache, tsVerifiedLines, Some([tsLine |-> None, luaLine |-> None]),
                    FALSE, TRUE, result.readFileSync, TRUE)
       ELSE Outcome(Put(cache, luaPath[1], result.sourceMap[1]),
                    Put(tsVerifiedLines, tsFileName, result.tsFileLines[1]),
                    Some(getTSFileLine(result.tsFileLines[1], line)),
                    FALSE, TRUE, result.readFileSync, FALSE) :
         result \in {buildMap(fs[mapFilePath])}} : TRUE

(***************************************************************************)
(* getTSMap                                                                *)
(***************************************************************************)

\* The part of getTSMap after the cache lookup (lines 417-435).
locate(sourceMap, luaFilePath, luaLine) ==
  IF sourceMap.built /\ luaLine \in DOMAIN sourceMap.lines
  THEN LET lineMapping == sourceMap.lines[luaLine] IN
       [filePath |-> toTSFileAbsPath(luaFilePath,
                                     sourceEntry(sourceMap.sources, lineMapping.sourceIndex)),
        line |-> lineMapping.sourceLine,
        column |-> lineMapping.sourceColumn]
  ELSE [filePath |-> luaFilePath, line |-> luaLine, column |-> 0]

\* getTSMap(luaFilePath, luaLine)
getTSMap(luaFilePath, luaLine) ==
  IF luaFilePath \in DOMAIN cache
  THEN Outcome(cache, tsVerifiedLines, Some(locate(cache[luaFilePath], luaFilePath, luaLine)),
               FALSE, FALSE, FALSE, FALSE)
  ELSE
    CHOOSE o \in
      {IF result.threw
       THEN Outcome(cache, tsVerifiedLines, None, TRUE, TRUE, result.readFileSync, FALSE)
       ELSE
         LET sourceMap == IF result.ok THEN result.sourceMap[1] ELSE FalseSentinel IN
         Outcome(Put(cache, luaFilePath, sourceMap), tsVerifiedLines,
                 Some(locate(sourceMap, luaFilePath, luaLine)),
                 FALSE, TRUE, result.readFileSync, FALSE) :
         result \in {buildMap(fs[mapFilePathOf(luaFilePath)])}} : TRUE

(***************************************************************************)
(* clear                                                                   *)
(***************************************************************************)

\* A clear that resets only the SourceMap cache and keeps tsVerifiedLines.
clearCacheOnly == Outcome(<<>>, tsVerifiedLines, None, FALSE, FALSE, FALSE, FALSE)

\* clear(): cache = {} and tsVerifiedLines.clear()
clear == Outcome(<<>>, <<>>, None, FALSE, FALSE, FALSE, FALSE)

(***************************************************************************)
(* Map files                                                               *)
(***************************************************************************)

\* sources of a map file next to out/: paths relative to the output file.
RelA == <<"..", "src", "a.ts">>
RelB == <<"..", "src", "b.ts">>

\* The scenario file: Original-Line Index 1 -> 2, 3 -> 4.
ScenarioFile == MapFile(Some(Scenario), Some(<<RelA>>))
\* Two sources; Original-Line Index 2 -> 1 (row 1: a.ts line 2, row 2: b.ts line 2).
TwoSourcesFile ==
  MapFile(Some(<<"A","A","C","A", ";", "A","C","A","C">>), Some(<<RelA, RelB>>))
\* Only empty rows: a truthy mapping string without any segment.
NoSegmentFile == MapFile(Some(<<";">>), Some(<<RelA>>))
\* Structurally incomplete files.
NoMappingsFile    == MapFile(None, Some(<<RelA>>))
EmptyMappingsFile == MapFile(Some(<<>>), Some(<<RelA>>))
NoSourcesFile     == MapFile(Some(Scenario), None)
EmptySourcesFile  == MapFile(Some(Scenario), Some(<<>>))
\* A character outside the alphabet in the second segment.
MalformedFile == MapFile(Some(<<"A","A","A","A", ",", "A","A","!","A">>), Some(<<RelA>>))
\* sourceIndex delta 1 with a single source.
IndexPastEndFile == MapFile(Some(<<"A","C","A","A">>), Some(<<RelA>>))
\* sourceIndex delta -1.
IndexNegativeFile == MapFile(Some(<<"A","D","A","A">>), Some(<<RelA>>))

\* Two sources with lines of their own: row 1 is a.ts line 2, row 2 is b.ts
\* line 4; Original-Line Index 2 -> 1, 4 -> 2.
SplitSourcesFile ==
  MapFile(Some(<<"A","A","C","A", ";", "A","C","E","A">>), Some(<<RelA, RelB>>))

VersionsSources    == {NoFile, ScenarioFile, SplitSourcesFile}
VersionsBuilt      == {NoFile, ScenarioFile, TwoSourcesFile, NoSegmentFile}
VersionsIncomplete == {NoFile, NoMappingsFile, EmptyMappingsFile, NoSourcesFile,
                       EmptySourcesFile}
VersionsMalformed  == {ScenarioFile, MalformedFile, IndexPastEndFile, IndexNegativeFile}

(***************************************************************************)
(* Actions                                                                 *)
(***************************************************************************)

NoCall ==
  [op |-> "none", tsFileName |-> None, luaPath |-> None, line |-> 0,
   ret |-> None, threw |-> FALSE,
   existsSync |-> FALSE, readFileSync |-> FALSE, showTips |-> FALSE,
   file |-> None, cacheBefore |-> None, indexBefore |-> None,
   failedBefore |-> FALSE, readBefore |-> FALSE, tipBefore |-> FALSE,
   firstAfterClear |-> None]

\* The state a call for luaPath (None: undefined) meets.
Met(luaPath) ==
  IF luaPath = None THEN NoCall
  ELSE [NoCall EXCEPT
          !.luaPath = luaPath,
          !.file = Some(fs[mapFilePathOf(luaPath[1])]),
          !.cacheBefore = cacheGet(luaPath[1]),
          !.failedBefore = luaPath[1] \in failedMissing,
          !.readBefore = luaPath[1] \in readDone,
          !.tipBefore = mapFilePathOf(luaPath[1]) \in tipsShown]

\* The effect of a call with outcome o for luaPath on the state.
Apply(o, luaPath, call) ==
  /\ cache' = o.cache
  /\ tsVerifiedLines' = o.tsVerifiedLines
  /\ last' = [call EXCEPT !.ret = o.ret, !.threw = o.threw,
                          !.existsSync = o.existsSync,
                          !.readFileSync = o.readFileSync,
                          !.showTips = o.showTips]
  /\ failedMissing' = IF o.existsSync /\ ~fs[mapFilePathOf(luaPath[1])].exists
                      THEN failedMissing \cup {luaPath[1]} ELSE failedMissing
  /\ readDone' = IF o.readFileSync THEN readDone \cup {luaPath[1]} ELSE readDone
  /\ tipsShown' = IF o.showTips THEN tipsShown \cup {mapFilePathOf(luaPath[1])}
                  ELSE tipsShown
  /\ UNCHANGED <<fs, versions, outputs>>

VerifyBreakpoint ==
  \E tsFileName \in FileNames, line \in Lines,
     luaPath \in {None} \cup {Some(l) : l \in outputs} :
    LET shortCut == luaPath = None \/ tsFileName = luaPath[1] IN
    \E o \in {verifyBreakpoint(tsFileName, line, luaPath)} :
        /\ Apply(o, luaPath,
                 [Met(luaPath) EXCEPT !.op = "verifyBreakpoint",
                                      !.tsFileName = Some(tsFileName),
                                      !.line = line,
                                      !.indexBefore = indexGet(tsFileName),
                                      !.firstAfterClear =
                                         IF shortCut THEN None ELSE afterClear])
        /\ afterClear' = IF shortCut THEN afterClear ELSE None

GetTSMap ==
  \E luaFilePath \in outputs, luaLine \in Lines :
  \E o \in {getTSMap(luaFilePath, luaLine)} :
    /\ Apply(o, Some(luaFilePath),
             [Met(Some(luaFilePath)) EXCEPT !.op = "getTSMap", !.line = luaLine,
                                            !.firstAfterClear = afterClear])
    /\ afterClear' = None

Clear ==
  /\ cache' = clear.cache
  /\ tsVerifiedLines' = clear.tsVerifiedLines
  /\ last' = [NoCall EXCEPT !.op = "clear"]
  /\ failedMissing' = {}
  /\ readDone' = {}
  /\ tipsShown' = {}
  /\ afterClear' = Some([cache |-> cache, tsVerifiedLines |-> tsVerifiedLines])
  /\ UNCHANGED <<fs, versions, outputs>>

\* The compiler writes, rewrites or removes a map file.
WriteMapFile ==
  \E mapFilePath \in DOMAIN fs, file \in versions :
    /\ file # fs[mapFilePath]
    /\ fs' = [fs EXCEPT ![mapFilePath] = file]
    /\ UNCHANGED <<cache, tsVerifiedLines, versions, outputs, last, failedMissing, readDone,
                   tipsShown, afterClear>>

InitWith(files, luaPaths) ==
  /\ cache = <<>>
  /\ tsVerifiedLines = <<>>
  /\ versions = files
  /\ outputs = luaPaths
  /\ fs \in [{mapFilePathOf(l) : l \in luaPaths} -> files]
  /\ last = NoCall
  /\ failedMissing = {}
  /\ readDone = {}
  /\ tipsShown = {}
  /\ afterClear = None

Init == InitWith(VersionsBuilt, {LuaA})
InitIncomplete == InitWith(VersionsIncomplete, {LuaA})
InitMalformed == InitWith(VersionsMalformed, {LuaA})
InitTwoOutputs == InitWith({NoFile, ScenarioFile}, {LuaA, LuaB})

Next == VerifyBreakpoint \/ GetTSMap \/ Clear \/ WriteMapFile

Spec == Init /\ [][Next]_vars
SpecIncomplete == InitIncomplete /\ [][Next]_vars
SpecMalformed == InitMalformed /\ [][Next]_vars
SpecTwoOutputs == InitTwoOutputs /\ [][Next]_vars

InitSources == InitWith(VersionsSources, {LuaA})
SpecSources == InitSources /\ [][Next]_vars

(***************************************************************************)
(* Properties                                                              *)
(***************************************************************************)

\* The last call consulted the map of an output path: getTSMap, or a
\* verifyBreakpoint that passed its two early returns.
Lookup ==
  \/ last.op = "getTSMap"
  \/ /\ last.op = "verifyBreakpoint"
     /\ last.luaPath # None
     /\ last.tsFileName # last.luaPath

\* The 'unavailable' result of the last call.
Unavailable ==
  /\ ~last.threw
  /\ last.ret # None
  /\ IF last.op = "verifyBreakpoint"
     THEN last.ret[1] = [tsLine |-> None, luaLine |-> None]
     ELSE last.ret[1] = [filePath |-> last.luaPath[1], line |-> last.line, column |-> 0]

\* The last call touched the file system.
TouchedDisk == last.existsSync \/ last.readFileSync

\* C1: after a lookup for an output path failed on a missing map file, a
\* later lookup for that path (no clear() in between) does not touch the
\* file system and returns the negative result again.
C1_NegativeCaching ==
  (Lookup /\ last.failedBefore) => (~TouchedDisk /\ Unavailable)

\* C2: without a clear(), the map file of an output path is read at most
\* once: a lookup for a path whose map file was already read does not read
\* it again.
C2_LoadOnce ==
  (Lookup /\ last.readBefore) => ~last.readFileSync

\* C3: a cache entry that is set (false sentinel or built map) is changed
\* by no step other than clear().
C3_WriteOnce ==
  [][\A l \in DOMAIN cache :
       last'.op # "clear" => (l \in DOMAIN cache' /\ cache'[l] = cache[l])]_vars

\* The last call was a verifyBreakpoint that reached getTSFileLine with the
\* Original-Line Index now cached for its file.
Snapped ==
  /\ last.op = "verifyBreakpoint"
  /\ last.luaPath # None
  /\ last.tsFileName # last.luaPath
  /\ ~last.threw
  /\ last.tsFileName[1] \in DOMAIN tsVerifiedLines

\* C4: verifyBreakpoint returns the smallest indexed original line >= the
\* requested line, or the largest indexed line when there is none, with the
\* output line stored for it; both are undefined for an empty index.
C4_MonotonicSnapping ==
  Snapped =>
    LET index == tsVerifiedLines[last.tsFileName[1]]
        keys  == DOMAIN index
        n     == last.line
        r     == last.ret[1]
    IN  IF keys = {}
        THEN r = [tsLine |-> None, luaLine |-> None]
        ELSE /\ r.tsLine # None
             /\ r.tsLine[1] \in keys
             /\ r.luaLine = Some(index[r.tsLine[1]])
             /\ IF \E k \in keys : k >= n
                THEN r.tsLine[1] >= n /\ \A k \in keys : k >= n => r.tsLine[1] <= k
                ELSE \A k \in keys : k <= r.tsLine[1]

\* Witness of C4: a request past the last indexed line was clamped to it.
C4_Witness ==
  /\ Snapped
  /\ last.ret[1].tsLine # None
  /\ last.ret[1].tsLine[1] < last.line
  /\ Cardinality(DOMAIN tsVerifiedLines[last.tsFileName[1]]) > 0

\* C5: clear() leaves both caches empty, and the first verifyBreakpoint
\* (between different files) or getTSMap after it asks the file system.
C5_ClearForcesReload ==
  /\ last.op = "clear" => (DOMAIN cache = {} /\ DOMAIN tsVerifiedLines = {})
  /\ last.firstAfterClear # None => (Lookup /\ last.existsSync)

\* Witness of C5: clear() emptied a cache that held an index for a file, and
\* the next verifyBreakpoint for that file went to the file system.
C5_Witness ==
  /\ last.op = "verifyBreakpoint"
  /\ last.firstAfterClear # None
  /\ last.tsFileName[1] \in DOMAIN last.firstAfterClear[1].tsVerifiedLines
  /\ last.luaPath[1] \in DOMAIN last.firstAfterClear[1].cache
  /\ last.existsSync

\* The mapping string of a file holds a character outside the alphabet.
Malformed(file) ==
  /\ file.exists
  /\ file.mappings # None
  /\ \E i \in 1..Len(file.mappings[1]) :
       /\ file.mappings[1][i] \notin {";", ","}
       /\ charToInteger(file.mappings[1][i]) = None

\* C6: a lookup that builds from a mapping string with a character outside
\* the alphabet raises nothing, returns 'unavailable' and leaves the output
\* path cached as negative.
C6_MalformedContained ==
  (Lookup /\ last.readFileSync /\ Malformed(last.file[1])) =>
    /\ Unavailable
    /\ cacheGet(last.luaPath[1]) = Some(FalseSentinel)

\* C7: a verifyBreakpoint that gets no map returns both lines undefined, and
\* the diagnostic for one map file is shown at most once without a clear().
C7_DiagnosticOnce ==
  /\ (last.op = "verifyBreakpoint" /\ last.showTips) => Unavailable
  /\ (last.op = "verifyBreakpoint" /\ last.tipBefore) => ~last.showTips

\* A file that exists with its mappings or sources field absent or empty.
Incomplete(file) ==
  /\ file.exists
  /\ \/ file.mappings = None
     \/ file.mappings = Some(<<>>)
     \/ file.sources = None
     \/ file.sources = Some(<<>>)

\* No map is available to the last call: a cached negative, or nothing
\* cached and the map file missing, incomplete or not decodable.
NoMapAvailable ==
  \/ last.cacheBefore = Some(FalseSentinel)
  \/ /\ last.cacheBefore = None
     /\ \/ ~last.file[1].exists
        \/ Incomplete(last.file[1])
        \/ Malformed(last.file[1])

\* C8: getTSMap returns the output path and line with column 0 when no map
\* is available or the line has no Line Mapping, and otherwise the resolved
\* source path with the stored source line and column.
C8_ReverseLookup ==
  last.op = "getTSMap" =>
    /\ ~last.threw
    /\ last.ret # None
    /\ last.luaPath[1] \in DOMAIN cache
    /\ LET luaFilePath == last.luaPath[1]
           sourceMap   == cache[luaFilePath]
           r           == last.ret[1]
       IN  IF NoMapAvailable \/ last.line \notin DOMAIN sourceMap.lines
           THEN r = [filePath |-> luaFilePath, line |-> last.line, column |-> 0]
           ELSE LET lineMapping == sourceMap.lines[last.line]
                    entry == sourceEntry(sourceMap.sources, lineMapping.sourceIndex)
                IN  /\ r.line = lineMapping.sourceLine
                    /\ r.column = lineMapping.sourceColumn
                    /\ entry # None
                    /\ r.filePath = resolve(dirname(luaFilePath) \o entry[1])

\* C9: a lookup that meets an incomplete map file builds nothing, returns
\* the negative result and leaves the output path cached as negative.
C9_IncompleteIsMissing ==
  (Lookup /\ last.existsSync /\ Incomplete(last.file[1])) =>
    /\ Unavailable
    /\ cacheGet(last.luaPath[1]) = Some(FalseSentinel)

\* C10: every Line Mapping of every cached SourceMap has a sourceIndex that
\* is a valid index into the map's sources.
C10_SourceIndexValid ==
  \A l \in DOMAIN cache :
    cache[l].built =>
      \A line \in DOMAIN cache[l].lines :
        /\ cache[l].lines[line].sourceIndex >= 0
        /\ cache[l].lines[line].sourceIndex < Len(cache[l].sources)

(***************************************************************************)
(* The scenario of the mapping string ";AAAA,gBAAkB;AAAV;AAEJ"             *)
(***************************************************************************)

\* The last call was verifyBreakpoint("a.ts", 1, "a.lua") on empty caches
\* with the scenario file on disk.
ScenarioCall ==
  /\ last.op = "verifyBreakpoint"
  /\ last.tsFileName = Some(<<"src", "a.ts">>)
  /\ last.luaPath = Some(LuaA)
  /\ last.line = 1
  /\ last.cacheBefore = None
  /\ last.indexBefore = None
  /\ last.file = Some(ScenarioFile)

\* C11: for the mapping string ";AAAA,gBAAkB;AAAV;AAEJ" with sources
\* ["a.ts"], the built map has a Line Mapping for output line 2 with source
\* line 1, and the first verifyBreakpoint("a.ts", 1, "a.lua") on empty
\* caches returns {tsLine: 1, luaLine: 2}.
C11_Scenario ==
  ScenarioCall =>
    /\ ~last.threw
    /\ last.ret = Some([tsLine |-> Some(1), luaLine |-> Some(2)])
    /\ LuaA \in DOMAIN cache
    /\ cache[LuaA].built
    /\ 2 \in DOMAIN cache[LuaA].lines
    /\ cache[LuaA].lines[2].sourceLine = 1

\* Witness of C11: the scenario call happened, read the map file and
\* answered with a defined pair.
C11_Witness ==
  /\ ScenarioCall
  /\ last.readFileSync
  /\ last.ret # None
  /\ last.ret[1].luaLine # None

(***************************************************************************)
(* verifyLuaFilePath                                                       *)
(***************************************************************************)

\* String.prototype.endsWith / startsWith
endsWith(string, suffix) ==
  /\ Len(suffix) <= Len(string)
  /\ SubSeq(string, Len(string) - Len(suffix) + 1, Len(string)) = suffix

startsWith(string, prefix) ==
  /\ Len(prefix) <= Len(string)
  /\ SubSeq(string, 1, Len(prefix)) = prefix

\* String.prototype.indexOf, 1-based: the first position pattern occurs at,
\* 0 when it does not occur.
indexOf(string, pattern) ==
  LET starts == {i \in 1..(Len(string) - Len(pattern) + 1) :
                   SubSeq(string, i, i + Len(pattern) - 1) = pattern}
  IN  IF starts = {} THEN 0 ELSE CHOOSE i \in starts : \A j \in starts : i <= j

\* String.prototype.replace(pattern, replacement) with a string pattern:
\* only the first occurrence is replaced.
replace(string, pattern, replacement) ==
  LET i == indexOf(string, pattern) IN
  IF i = 0 THEN string
  ELSE SubSeq(string, 1, i - 1) \o replacement
       \o SubSeq(string, i + Len(pattern), Len(string))

DotTs  == <<".", "t", "s">>
DotLua == <<".", "l", "u", "a">>

\* verifyLuaFilePath(tsFileName) under the configuration Tools: the returned
\* path (None for undefined) and the number of showTips calls.
verifyLuaFilePath(tsFileName, Tools) ==
  IF ~endsWith(tsFileName, DotTs)
  THEN [ret |-> Some(tsFileName), showTips |-> 0]
  ELSE IF ~startsWith(tsFileName, Tools.tsRootPath)
  THEN [ret |-> None, showTips |-> 1]
  ELSE LET luaPath == replace(tsFileName, Tools.tsRootPath, Tools.luaRootPath)
       IN  [ret |-> Some(replace(luaPath, DotTs, DotLua)), showTips |-> 0]

\* Longest path handed to verifyLuaFilePath, in pieces.
MaxPieces == 4

\* The pieces paths are put together from.
PathPieces == {<<"/", "s">>, <<"/", "a">>, DotTs, <<"x">>}

RECURSIVE concat(_)
concat(pieces) ==
  IF Len(pieces) = 0 THEN <<>> ELSE pieces[1] \o concat(Tail(pieces))

PathStrings ==
  UNION {{concat(pieces) : pieces \in [1..n -> PathPieces]} : n \in 1..MaxPieces}

\* launch.json configurations: the original root /s, and an output root
\* without and with ".ts" in it.
RootConfigs ==
  {[tsRootPath |-> <<"/", "s">>, luaRootPath |-> <<"/", "l">>],
   [tsRootPath |-> <<"/", "s">>, luaRootPath |-> <<"/", "l">> \o DotTs]}

\* A session in which no map is looked up: the state, apart from last, of
\* the specifications that apply one function to inputs of a bounded set.
Idle ==
  /\ cache = <<>>
  /\ tsVerifiedLines = <<>>
  /\ versions = {NoFile}
  /\ outputs = {LuaA}
  /\ fs = [f \in {mapFilePathOf(LuaA)} |-> NoFile]
  /\ failedMissing = {}
  /\ readDone = {}
  /\ tipsShown = {}
  /\ afterClear = None

StaysIdle ==
  UNCHANGED <<cache, tsVerifiedLines, fs, versions, outputs, failedMissing,
              readDone, tipsShown, afterClear>>

InitPath ==
  /\ Idle
  /\ last \in {[op |-> "input", tsFileName |-> tsFileName, Tools |-> Tools,
                ret |-> None, showTips |-> 0] :
                 tsFileName \in PathStrings, Tools \in RootConfigs}

VerifyLuaFilePath ==
  /\ last.op = "input"
  /\ \E o \in {verifyLuaFilePath(last.tsFileName, last.Tools)} :
       last' = [last EXCEPT !.op = "verifyLuaFilePath", !.ret = o.ret,
                            !.showTips = o.showTips]
  /\ StaysIdle

SpecPath == InitPath /\ [][VerifyLuaFilePath]_vars

\* C12: verifyLuaFilePath returns a path that does not end with ".ts"
\* unchanged; for a path ending with ".ts" outside the original root it
\* returns undefined and shows exactly one diagnostic; otherwise it returns
\* the path with the leading root replaced by the output root and the
\* trailing ".ts" replaced by ".lua", every other character unchanged.
C12_PathTranslation ==
  last.op = "verifyLuaFilePath" =>
    LET p    == last.tsFileName
        root == last.Tools.tsRootPath
    IN  IF ~endsWith(p, DotTs)
        THEN last.ret = Some(p) /\ last.showTips = 0
        ELSE IF ~startsWith(p, root)
        THEN last.ret = None /\ last.showTips = 1
        ELSE /\ last.showTips = 0
             /\ last.ret = Some(last.Tools.luaRootPath
                                \o SubSeq(p, Len(root) + 1, Len(p) - Len(DotTs))
                                \o DotLua)

(***************************************************************************)
(* The early returns of verifyBreakpoint                                   *)
(***************************************************************************)

\* C13: a verifyBreakpoint whose luaPath is undefined returns both lines
\* undefined, one whose tsFileName equals luaPath returns {tsLine:
\* undefined, luaLine: line}; either leaves both caches as they are, does
\* not touch the file system and shows no diagnostic.
C13_ShortCircuit ==
  [][(/\ last'.op = "verifyBreakpoint"
      /\ (last'.luaPath = None \/ last'.tsFileName = last'.luaPath))
     => /\ ~last'.threw
        /\ last'.ret =
             Some(IF last'.luaPath = None
                  THEN [tsLine |-> None, luaLine |-> None]
                  ELSE [tsLine |-> None, luaLine |-> Some(last'.line)])
        /\ cache' = cache
        /\ tsVerifiedLines' = tsVerifiedLines
        /\ ~last'.existsSync
        /\ ~last'.readFileSync
        /\ ~last'.showTips
        /\ tipsShown' = tipsShown]_vars

\* Witness of C13: the call named the output file itself as tsFileName while
\* its map file was on disk and a map was cached, and came back with the
\* requested line.
C13_Witness ==
  /\ last.op = "verifyBreakpoint"
  /\ last.luaPath # None
  /\ last.tsFileName = last.luaPath
  /\ last.file[1].exists
  /\ last.cacheBefore # None
  /\ last.ret = Some([tsLine |-> None, luaLine |-> Some(last.line)])

(***************************************************************************)
(* VLQ round trip                                                          *)
(***************************************************************************)

\* integerToChar[integer]
integerToChar(integer) == Alphabet[integer + 1]

\* The 32-bit word the reference encoder (vlq.ts, named at line 224) starts
\* from: num < 0 ? (-num << 1) | 1 : num << 1, as an unsigned [hi, lo].
encodeWord(num) ==
  LET quarter == Half \div 2 IN
  IF num >= 0
  THEN [hi |-> (num \div quarter) % Half, lo |-> (num % quarter) * 2]
  ELSE IF num = MinInt32
  THEN [hi |-> 0, lo |-> 1]
  ELSE [hi |-> ((0 - num) \div quarter) % Half, lo |-> ((0 - num) % quarter) * 2 + 1]

\* The loop of the reference encoder: clamped = num & 31; num >>>= 5; the
\* continuation bit is set while num > 0.
RECURSIVE encodeFrom(_)
encodeFrom(word) ==
  LET clamped == word.lo % (PayloadMask + 1)
      rest    == [hi |-> word.hi \div Pow2(ShiftStep),
                  lo |-> (word.lo \div Pow2(ShiftStep))
                         + (word.hi % Pow2(ShiftStep)) * (Half \div Pow2(ShiftStep))]
  IN  IF rest.hi > 0 \/ rest.lo > 0
      THEN <<integerToChar(clamped + ContinuationBit)>> \o encodeFrom(rest)
      ELSE <<integerToChar(clamped)>>

encodeInteger(num) == encodeFrom(encodeWord(num))

RECURSIVE encode(_)
encode(integers) ==
  IF Len(integers) = 0 THEN <<>>
  ELSE encodeInteger(integers[1]) \o encode(Tail(integers))

\* Longest sequence of integers encoded into one segment.
MaxIntegers == 2

\* Integers at the edges of the 32-bit range, of the 5-bit groups and of the
\* sign.
VlqIntegers ==
  {0, 1, 0 - 1, 15, 16, 0 - 16, 1000, 0 - 1000,
   Pow2(30) - 1, Pow2(30), 0 - (Pow2(30) + 1),
   2147483647, 0 - 2147483647, MinInt32}

InitVlq ==
  /\ Idle
  /\ last \in {[op |-> "input", integers |-> integers, string |-> encode(integers),
                ret |-> None, threw |-> FALSE] :
                 integers \in UNION {[1..n -> VlqIntegers] : n \in 0..MaxIntegers}}

Decode ==
  /\ last.op = "input"
  /\ \E decoded \in {decode(last.string)} :
       last' = [last EXCEPT !.op = "decode", !.ret = Some(decoded.result),
                            !.threw = decoded.threw]
  /\ StaysIdle

SpecVlq == InitVlq /\ [][Decode]_vars

\* C14: decode of the reference encoding of a sequence of signed 32-bit
\* integers is that sequence (value and shift start afresh after every
\* value), and the encoding of 'negative zero', "B", decodes to -2^31.
C14_RoundTrip ==
  /\ last.op = "decode" => (~last.threw /\ last.ret = Some(last.integers))
  /\ encodeInteger(MinInt32) = <<"B">>
  /\ decode(<<"B">>) = [threw |-> FALSE, result |-> <<MinInt32>>]

\* Witness of C14: a sequence of two values, the first of seven characters
\* and the second -2^31, came back from decode.
C14_Witness ==
  /\ last.op = "decode"
  /\ Len(last.integers) = 2
  /\ last.integers[1] = 2147483647
  /\ last.integers[2] = MinInt32
  /\ Len(last.string) = 8
  /\ last.ret = Some(last.integers)

(***************************************************************************)
(* build on mapping strings                                                *)
(***************************************************************************)

\* Longest mapping string handed to build, in pieces.
MaxTokens == 4

\* The pieces mapping strings are put together from: segments that leave
\* the position, move the source line by +1 / -1 or the source column by
\* +1 / -1, and the two separators.
MappingTokens ==
  {<<"A","A","A","A">>, <<"A","A","C","A">>, <<"A","A","D","A">>,
   <<"A","A","A","C">>, <<"A","A","A","D">>, <<";">>, <<",">>}

MappingStrings ==
  UNION {{concat(tokens) : tokens \in [1..n -> MappingTokens]} : n \in 1..MaxTokens}

InitBuild ==
  /\ Idle
  /\ last \in {[op |-> "input", mappings |-> mappings, ret |-> None] :
                 mappings \in MappingStrings}

Build ==
  /\ last.op = "input"
  /\ \E result \in {build(last.mappings)} :
       last' = [last EXCEPT !.op = "build", !.ret = Some(result)]
  /\ StaysIdle

SpecBuild == InitBuild /\ [][Build]_vars

\* The segments of a mapping string in the order of the string: the k-th
\* element holds the 1-based number of the ;-group the segment stands in and
\* its decoded fields. An empty group holds no segment.
RECURSIVE SegmentsFrom(_, _)
SegmentsFrom(groups, n) ==
  IF n > Len(groups) THEN <<>>
  ELSE (IF Len(groups[n]) = 0 THEN <<>>
        ELSE LET segments == split(groups[n], ",")
             IN  [j \in 1..Len(segments) |->
                    [group |-> n, offsets |-> decode(segments[j]).result]])
       \o SegmentsFrom(groups, n + 1)

Segments(mappings) == SegmentsFrom(split(mappings, ";"), 1)

\* The sum of the field at 0-based position f over the first k segments.
RECURSIVE DeltaSum(_, _, _)
DeltaSum(segments, k, f) ==
  IF k = 0 THEN 0
  ELSE DeltaSum(segments, k - 1, f) + offsetOrZero(segments[k].offsets, f)

\* The position of every segment: the baseline (0, 1, 1) plus the sum of the
\* deltas of all segments up to and including it; group N (0-based) is
\* output line N + 1.
Positions(mappings) ==
  LET segments == Segments(mappings) IN
  [k \in 1..Len(segments) |->
     [line         |-> (segments[k].group - 1) + 1,
      sourceIndex  |-> 0 + DeltaSum(segments, k, 1),
      sourceLine   |-> 1 + DeltaSum(segments, k, 2),
      sourceColumn |-> 1 + DeltaSum(segments, k, 3)]]

\* (sourceLine, sourceColumn) of p is not after that of q.
NotAfter(p, q) ==
  \/ p.sourceLine < q.sourceLine
  \/ p.sourceLine = q.sourceLine /\ p.sourceColumn <= q.sourceColumn

\* C15: after build, the Line Mapping of every output line with a segment
\* is the lexicographically smallest (sourceLine, sourceColumn) among the
\* positions of the segments of that line, whatever their order; an output
\* line without a segment has no Line Mapping.
C15_SmallestPosition ==
  last.op = "build" =>
    \E positions \in {Positions(last.mappings)} :
      LET sourceMap == last.ret[1].sourceMap
          On(line)  == {k \in 1..Len(positions) : positions[k].line = line}
      IN  /\ ~last.ret[1].threw
          /\ DOMAIN sourceMap = {positions[k].line : k \in 1..Len(positions)}
          /\ \A line \in DOMAIN sourceMap :
               \E k \in On(line) :
                 /\ \A j \in On(line) : NotAfter(positions[k], positions[j])
                 /\ sourceMap[line].sourceLine = positions[k].sourceLine
                 /\ sourceMap[line].sourceColumn = positions[k].sourceColumn

\* Witness of C15: an output line got its smallest position from a segment
\* that is not the first of the line and that ties with the first in the
\* source line; an earlier line stayed without Line Mapping.
C15_Witness ==
  /\ last.op = "build"
  /\ \E positions \in {Positions(last.mappings)} :
       /\ Len(positions) >= 2
       /\ positions[1].line = 2
       /\ positions[2].line = 2
       /\ positions[2].sourceLine = positions[1].sourceLine
       /\ positions[2].sourceColumn < positions[1].sourceColumn
       /\ 1 \notin DOMAIN last.ret[1].sourceMap
       /\ last.ret[1].sourceMap[2].sourceColumn = positions[2].sourceColumn

\* The segments that carry the source line sourceLine.
Carrying(positions, sourceLine) ==
  {k \in 1..Len(positions) : positions[k].sourceLine = sourceLine}

\* C16 as stated: every original line of a segment is a key of the
\* Original-Line Index, and its value is the output line of the last segment
\* that carried it (a later insert overwrites the earlier one).
C16_LastSegmentWins ==
  last.op = "build" =>
    \E positions \in {Positions(last.mappings)} :
      LET tsFileLines == last.ret[1].tsFileLines IN
      /\ DOMAIN tsFileLines = {positions[k].sourceLine : k \in 1..Len(positions)}
      /\ \A sourceLine \in DOMAIN tsFileLines :
           \E k \in Carrying(positions, sourceLine) :
             /\ \A j \in Carrying(positions, sourceLine) : j <= k
             /\ tsFileLines[sourceLine] = positions[k].line

\* C16, amended: every original line of a segment is a key of the
\* Original-Line Index, and its value is the output line of the first
\* segment that carried it (an insert for a present key changes nothing).
C16_FirstSegmentWins ==
  last.op = "build" =>
    \E positions \in {Positions(last.mappings)} :
      LET tsFileLines == last.ret[1].tsFileLines IN
      /\ DOMAIN tsFileLines = {positions[k].sourceLine : k \in 1..Len(positions)}
      /\ \A sourceLine \in DOMAIN tsFileLines :
           \E k \in Carrying(positions, sourceLine) :
             /\ \A j \in Carrying(positions, sourceLine) : k <= j
             /\ tsFileLines[sourceLine] = positions[k].line

\* Witness of C16: one source line was carried by segments of two output
\* lines, and the index holds the earlier output line.
C16_Witness ==
  /\ last.op = "build"
  /\ \E positions \in {Positions(last.mappings)} :
       \E j, k \in 1..Len(positions) :
         /\ j < k
         /\ positions[j].sourceLine = positions[k].sourceLine
         /\ positions[j].line < positions[k].line
         /\ last.ret[1].tsFileLines[positions[j].sourceLine] = positions[j].line

\* C17: the N-th ;-group (0-based) is output line N + 1 also after empty
\* groups, and the running sourceIndex, sourceLine and sourceColumn (from 0,
\* 1, 1) are carried over the whole string: the Line Mapping of an output
\* line is the position of one of the segments of its group, and the keys
\* of the Original-Line Index are the source lines of the positions, each
\* with the output line of a segment that carried it.
C17_RunningTotals ==
  last.op = "build" =>
    \E positions \in {Positions(last.mappings)} :
      LET sourceMap   == last.ret[1].sourceMap
          tsFileLines == last.ret[1].tsFileLines
          groups      == split(last.mappings, ";")
      IN  /\ DOMAIN sourceMap = {n \in 1..Len(groups) : Len(groups[n]) > 0}
          /\ \A line \in DOMAIN sourceMap :
               \E k \in 1..Len(positions) :
                 /\ positions[k].line = line
                 /\ sourceMap[line] = [sourceIndex  |-> positions[k].sourceIndex,
                                       sourceLine   |-> positions[k].sourceLine,
                                       sourceColumn |-> positions[k].sourceColumn]
          /\ DOMAIN tsFileLines = {positions[k].sourceLine : k \in 1..Len(positions)}
          /\ \A sourceLine \in DOMAIN tsFileLines :
               \E k \in Carrying(positions, sourceLine) :
                 tsFileLines[sourceLine] = positions[k].line

\* Witness of C17: the first group is empty, the second moved the source
\* line, and the Line Mapping of output line 3 shows the moved line.
C17_Witness ==
  /\ last.op = "build"
  /\ \E groups \in {split(last.mappings, ";")} :
       /\ Len(groups) = 3
       /\ Len(groups[1]) = 0
       /\ groups[2] = <<"A","A","C","A">>
       /\ groups[3] = <<"A","A","A","A">>
  /\ DOMAIN last.ret[1].sourceMap = {2, 3}
  /\ last.ret[1].sourceMap[3].sourceLine = 2
  /\ last.ret[1].tsFileLines[2] = 2

(***************************************************************************)
(* The two caches together                                                 *)
(***************************************************************************)

\* C18: when tsVerifiedLines holds an index built from the output path L
\* (every index of a session with the one output file LuaA), cache[L] is a
\* built SourceMap, and every (original line -> output line) pair of the
\* index has a Line Mapping for the output line in that SourceMap.
C18_CrossCache ==
  \A tsFileName \in DOMAIN tsVerifiedLines :
    \A L \in outputs :
      /\ L \in DOMAIN cache
      /\ cache[L].built
      /\ \A originalLine \in DOMAIN tsVerifiedLines[tsFileName] :
           tsVerifiedLines[tsFileName][originalLine] \in DOMAIN cache[L].lines

\* The last call was a verifyBreakpoint that returned a defined pair.
Verified ==
  /\ last.op = "verifyBreakpoint"
  /\ last.luaPath # None
  /\ last.tsFileName # last.luaPath
  /\ ~last.threw
  /\ last.ret[1].tsLine # None
  /\ last.ret[1].luaLine # None

\* C19: after verifyBreakpoint(ts, n, lua) returned a defined {tsLine,
\* luaLine}, a getTSMap(lua, luaLine) that follows it with no clear() in
\* between is answered from the cache without a look at the file system, by
\* a mapped position whose line is at most tsLine. (Every original path of
\* the session is used with the one output path LuaA.)
C19_ForwardReverse ==
  Verified =>
    \E o \in {getTSMap(last.luaPath[1], last.ret[1].luaLine[1])} :
      /\ ~o.threw
      /\ ~o.existsSync
      /\ ~o.readFileSync
      /\ o.ret[1] # [filePath |-> last.luaPath[1],
                     line |-> last.ret[1].luaLine[1], column |-> 0]
      /\ o.ret[1].line <= last.ret[1].tsLine[1]

(***************************************************************************)
(* Maps with several sources                                               *)
(***************************************************************************)

\* C20: the tsLine that verifyBreakpoint(ts, n, lua) returns from the map
\* file it reads is the source line of a segment whose source entry,
\* sources[sourceIndex], is the file ts; a line that occurs only in segments
\* of another source is not returned for ts.
C20_IndexOfFile ==
  (Verified /\ last.readFileSync) =>
    \E positions \in {Positions(last.file[1].mappings[1])} :
      \E k \in 1..Len(positions) :
        /\ positions[k].sourceLine = last.ret[1].tsLine[1]
        /\ toTSFileAbsPath(last.luaPath[1],
                           sourceEntry(last.file[1].sources[1],
                                       positions[k].sourceIndex))
             = last.tsFileName[1]

====
